---- MODULE Spec2Model ----
(***************************************************************************)
(* Model of the struct-tag driven flag binder of package cli: name(),      *)
(* New(), bind(), the assign* write-back steps and contextualize().        *)
(*                                                                         *)
(* Go strings are sequences of one-character strings, so that Split,       *)
(* SplitN, the case regexp, Atoi and the CSV encoding of pflag's slice      *)
(* values are computed character by character.                             *)
(***************************************************************************)
EXTENDS Integers, Sequences, FiniteSets, TLC

VARIABLES
    pc,             \* position of the command's life cycle
    decl,           \* the option record's declared fields (reflect.StructField list)
    rec,            \* the option record's field values
    flags,          \* the pflag.FlagSet: flag name -> flag
    envs,           \* the env callbacks collected by New
    environ,        \* the process environment
    hasPre,         \* obj implements PreRunnable
    hook,           \* what obj's PersistentPre/Pre methods assign (a field name or Empty)
    argv,           \* the flag occurrences of the parsed command line
    prior,          \* the record as the caller built it, before New
    ov,             \* flags and record as the env callbacks of the last bound callable left them
    wb,             \* flags and record as its write-back steps left them, before the wrapped callable
    targets,        \* New's arrays, slices, maps, optInt, optBool, optString: flag name -> field
    trace,          \* steps the last bound callable executed, in order
    result,         \* what the last bound callable returned
    passes,         \* overlay + write-back passes run in this invocation
    defaultOptions, \* the process-wide cache: 0 is nil, else the id of a CliOptions object
    applied,        \* CliOptions object id -> number of default option constructors applied
    cpc,            \* per caller of contextualize: its position
    copts,          \* per caller of contextualize: the object it uses (0: none yet)
    calls,          \* per caller of contextualize: finished calls
    nameIn,         \* inputs of name(): <<name, setName, short>>
    nameOut,        \* result of name(): <<flag name, alias>>, or Empty before the call
    tokens,         \* the token sequence GetStringSlice hands to assignMaps
    mapOut          \* the mapping assignMaps stores

vars == <<pc, decl, rec, flags, envs, environ, hasPre, hook, argv, prior, ov, wb, targets, trace,
          result, passes, defaultOptions, applied, cpc, copts, calls,
          nameIn, nameOut, tokens, mapOut>>

(***************************************************************************)
(* Bounds                                                                  *)
(***************************************************************************)
MaxArgs == 1        \* flag occurrences on one command line
MaxNameLen == 3     \* length of the enumerated field names given to name()
MaxTokens == 2      \* tokens of a mapping flag
MaxTokLen == 3      \* characters of one token
MaxCalls == 2       \* contextualize calls per caller

(***************************************************************************)
(* Strings                                                                 *)
(***************************************************************************)
Empty == <<>>

LowerChars == {"a", "b", "c", "d", "e", "f", "g", "h", "i", "j", "k", "l", "m",
               "n", "o", "p", "q", "r", "s", "t", "u", "v", "w", "x", "y", "z"}

UpperOf == [c \in LowerChars |->
    CASE c = "a" -> "A" [] c = "b" -> "B" [] c = "c" -> "C" [] c = "d" -> "D"
      [] c = "e" -> "E" [] c = "f" -> "F" [] c = "g" -> "G" [] c = "h" -> "H"
      [] c = "i" -> "I" [] c = "j" -> "J" [] c = "k" -> "K" [] c = "l" -> "L"
      [] c = "m" -> "M" [] c = "n" -> "N" [] c = "o" -> "O" [] c = "p" -> "P"
      [] c = "q" -> "Q" [] c = "r" -> "R" [] c = "s" -> "S" [] c = "t" -> "T"
      [] c = "u" -> "U" [] c = "v" -> "V" [] c = "w" -> "W" [] c = "x" -> "X"
      [] c = "y" -> "Y" [] c = "z" -> "Z"]

UpperChars == {UpperOf[c] : c \in LowerChars}

\* strings.ToLower / strings.ToUpper on one character
ToLowerChar(c) == IF c \in UpperChars THEN CHOOSE l \in LowerChars : UpperOf[l] = c ELSE c
ToUpperChar(c) == IF c \in LowerChars THEN UpperOf[c] ELSE c

ToLower(s) == [i \in 1..Len(s) |-> ToLowerChar(s[i])]

\* strings.Split(s, sep) for a one-character separator: always at least one part
RECURSIVE SplitFrom(_, _, _, _)
SplitFrom(s, sep, i, cur) ==
    IF i > Len(s) THEN <<cur>>
    ELSE IF s[i] = sep THEN <<cur>> \o SplitFrom(s, sep, i + 1, Empty)
    ELSE SplitFrom(s, sep, i + 1, Append(cur, s[i]))

Split(s, sep) == SplitFrom(s, sep, 1, Empty)

\* strings.SplitN(s, sep, 2): cut at the first separator only
SplitN2(s, sep) ==
    IF \E i \in 1..Len(s) : s[i] = sep
    THEN LET i == CHOOSE j \in 1..Len(s) : s[j] = sep /\ \A k \in 1..(j - 1) : s[k] # sep
         IN  <<SubSeq(s, 1, i - 1), SubSeq(s, i + 1, Len(s))>>
    ELSE <<s>>

\* caseRegexp.ReplaceAllString(s, "$1-$2") with caseRegexp = ([a-z])([A-Z]):
\* a match ends in an upper-case letter, so matches never overlap and a hyphen
\* goes between every lower-case letter and the upper-case letter after it.
RECURSIVE CaseReplaceFrom(_, _)
CaseReplaceFrom(s, i) ==
    IF i > Len(s) THEN Empty
    ELSE IF i < Len(s) /\ s[i] \in LowerChars /\ s[i + 1] \in UpperChars
         THEN <<s[i], "-">> \o CaseReplaceFrom(s, i + 1)
         ELSE <<s[i]>> \o CaseReplaceFrom(s, i + 1)

CaseReplace(s) == CaseReplaceFrom(s, 1)

\* name() without the reorder: the first underscore segment names the flag
NameFirstSegment(fname, setName, short) ==
    IF setName # Empty THEN <<setName, short>>
    ELSE LET parts == Split(fname, "_")
             res == [j \in 1..Len(parts) |-> ToLower(CaseReplace(parts[j]))]
         IN  <<res[1], IF short = Empty /\ Len(res) > 1 THEN res[2] ELSE short>>

\* name(name, setName, short) (string, string)
name(fname, setName, short) ==
    IF setName # Empty THEN <<setName, short>>
    ELSE LET parts == Split(fname, "_")
             i == Len(parts)
             n == ToLower(CaseReplace(parts[i]))
             res == [j \in 1..Len(parts) |->
                       ToLower(IF j = 1 THEN n ELSE parts[j - 1])]
         IN  <<res[1], IF short = Empty /\ Len(res) > 1 THEN res[2] ELSE short>>

\* contextKey(name): the text after the last comma
contextKey(n) == LET parts == Split(n, ",") IN parts[Len(parts)]

(***************************************************************************)
(* Numbers and booleans as text (strconv)                                  *)
(***************************************************************************)
Digits == <<"0", "1", "2", "3", "4", "5", "6", "7", "8", "9">>

IsDigit(c) == \E d \in 1..10 : Digits[d] = c
DigitVal(c) == (CHOOSE d \in 1..10 : Digits[d] = c) - 1

RECURSIVE DigitsVal(_, _)
DigitsVal(s, acc) == IF s = Empty THEN acc ELSE DigitsVal(Tail(s), 10 * acc + DigitVal(Head(s)))

\* strconv.Atoi: an optional sign and at least one decimal digit, else an error
Atoi(s) ==
    LET signed == s # Empty /\ s[1] \in {"+", "-"}
        body == IF signed THEN Tail(s) ELSE s
    IN  IF body = Empty \/ \E i \in 1..Len(body) : ~IsDigit(body[i])
        THEN [ok |-> FALSE, val |-> 0]
        ELSE [ok |-> TRUE,
              val |-> IF signed /\ s[1] = "-" THEN 0 - DigitsVal(body, 0) ELSE DigitsVal(body, 0)]

RECURSIVE ItoaNat(_)
ItoaNat(n) == IF n < 10 THEN <<Digits[n + 1]>> ELSE Append(ItoaNat(n \div 10), Digits[(n % 10) + 1])

\* strconv.Itoa
Itoa(n) == IF n < 0 THEN <<"-">> \o ItoaNat(0 - n) ELSE ItoaNat(n)

TrueLits == {<<"1">>, <<"t">>, <<"T">>, <<"T", "R", "U", "E">>, <<"t", "r", "u", "e">>,
             <<"T", "r", "u", "e">>}
FalseLits == {<<"0">>, <<"f">>, <<"F">>, <<"F", "A", "L", "S", "E">>, <<"f", "a", "l", "s", "e">>,
              <<"F", "a", "l", "s", "e">>}

\* strconv.ParseBool
ParseBool(s) ==
    IF s \in TrueLits THEN [ok |-> TRUE, val |-> TRUE]
    ELSE IF s \in FalseLits THEN [ok |-> TRUE, val |-> FALSE]
    ELSE [ok |-> FALSE, val |-> FALSE]

\* strconv.FormatBool
FormatBool(b) == IF b THEN <<"t", "r", "u", "e">> ELSE <<"f", "a", "l", "s", "e">>

(***************************************************************************)
(* pflag's CSV encoding of string slices (writeAsCSV / readAsCSV over      *)
(* encoding/csv): stringSliceValue.String and stringArrayValue.String      *)
(* write it, GetStringSlice and GetStringArray read it back.               *)
(***************************************************************************)
Quote == "\""
Comma == ","

\* csv.Writer.fieldNeedsQuotes
fieldNeedsQuotes(f) ==
    /\ f # Empty
    /\ \/ \E i \in 1..Len(f) : f[i] \in {Comma, Quote}
       \/ f[1] = " "

RECURSIVE DoubleQuotes(_)
DoubleQuotes(f) ==
    IF f = Empty THEN Empty
    ELSE (IF Head(f) = Quote THEN <<Quote, Quote>> ELSE <<Head(f)>>) \o DoubleQuotes(Tail(f))

csvField(f) == IF fieldNeedsQuotes(f) THEN <<Quote>> \o DoubleQuotes(f) \o <<Quote>> ELSE f

\* writeAsCSV(vals): one record, fields joined by commas, the newline trimmed
RECURSIVE writeAsCSV(_)
writeAsCSV(vals) ==
    IF vals = Empty THEN Empty
    ELSE IF Len(vals) = 1 THEN csvField(vals[1])
    ELSE csvField(vals[1]) \o <<Comma>> \o writeAsCSV(Tail(vals))

\* csv.Reader reading one record from position i; q: inside a quoted field;
\* start: at the first character of a field
RECURSIVE csvRead(_, _, _, _, _, _)
csvRead(s, i, q, start, cur, done) ==
    IF i > Len(s)
    THEN IF q THEN [ok |-> FALSE, vals |-> Empty] ELSE [ok |-> TRUE, vals |-> Append(done, cur)]
    ELSE IF q
    THEN IF s[i] # Quote THEN csvRead(s, i + 1, TRUE, FALSE, Append(cur, s[i]), done)
         ELSE IF i < Len(s) /\ s[i + 1] = Quote
              THEN csvRead(s, i + 2, TRUE, FALSE, Append(cur, Quote), done)
         ELSE IF i = Len(s) THEN [ok |-> TRUE, vals |-> Append(done, cur)]
         ELSE IF s[i + 1] = Comma THEN csvRead(s, i + 2, FALSE, TRUE, Empty, Append(done, cur))
         ELSE [ok |-> FALSE, vals |-> Empty]
    ELSE IF s[i] = Comma THEN csvRead(s, i + 1, FALSE, TRUE, Empty, Append(done, cur))
    ELSE IF s[i] = Quote
         THEN IF start THEN csvRead(s, i + 1, TRUE, FALSE, Empty, done)
              ELSE [ok |-> FALSE, vals |-> Empty]
    ELSE csvRead(s, i + 1, FALSE, FALSE, Append(cur, s[i]), done)

\* readAsCSV(val): the empty text is the empty (non-nil) slice
readAsCSV(val) ==
    IF val = Empty THEN [ok |-> TRUE, vals |-> Empty]
    ELSE csvRead(val, 1, FALSE, TRUE, Empty, Empty)

\* stringSliceConv / stringArrayConv applied to "[" + writeAsCSV(vals) + "]"
sliceConv(vals) ==
    LET sval == <<"[">> \o writeAsCSV(vals) \o <<"]">>
        inner == SubSeq(sval, 2, Len(sval) - 1)
    IN  IF Len(inner) = 0 THEN [ok |-> TRUE, vals |-> Empty] ELSE readAsCSV(inner)

(***************************************************************************)
(* Go values of the record's fields                                        *)
(***************************************************************************)
NilSlice == [isnil |-> TRUE, elems |-> Empty]
MkSlice(s) == [isnil |-> FALSE, elems |-> s]

\* a map[string]string is a set of <<key, value>> pairs with distinct keys
NilMap == [isnil |-> TRUE, kv |-> {}]
MkMap(m) == [isnil |-> FALSE, kv |-> m]

NilPtr == [isnil |-> TRUE]
MkPtr(v) == [isnil |-> FALSE, val |-> v]

\* values[k] = v
MapPut(m, k, v) == {p \in m : p[1] # k} \cup {<<k, v>>}

\* the mapping built from tokens where the first token of a key wins
RECURSIVE parseTokensFirstWins(_, _)
parseTokensFirstWins(s, values) ==
    IF s = Empty THEN values
    ELSE LET parts == SplitN2(Head(s), "=")
             k == parts[1]
             v == IF Len(parts) = 1 THEN Empty ELSE parts[2]
         IN  parseTokensFirstWins(Tail(s),
                 IF \E p \in values : p[1] = k THEN values ELSE MapPut(values, k, v))

\* the loop of assignMaps over the tokens of one flag
RECURSIVE parseTokens(_, _)
parseTokens(s, values) ==
    IF s = Empty THEN values
    ELSE LET parts == SplitN2(Head(s), "=")
         IN  parseTokens(Tail(s),
                 IF Len(parts) = 1 THEN MapPut(values, parts[1], Empty)
                 ELSE MapPut(values, parts[1], parts[2]))

(***************************************************************************)
(* The option record: its declared fields and their tags                   *)
(***************************************************************************)
v1 == <<"v", "1">>
v2 == <<"v", "2">>
v3 == <<"v", "3">>
MY_TAG == <<"M", "Y", "_", "T", "A", "G">>

FTag == <<"T", "a", "g">>
FLabel == <<"L", "a", "b", "e", "l">>
FCount == <<"C", "o", "u", "n", "t">>
FDepth == <<"D", "e", "p", "t", "h">>
FVerbose == <<"V", "e", "r", "b", "o", "s", "e">>
FQuiet == <<"Q", "u", "i", "e", "t">>
FArch == <<"A", "r", "c", "h">>
FVolume == <<"V", "o", "l", "u", "m", "e">>
FMeta == <<"M", "e", "t", "a">>
FLimit == <<"L", "i", "m", "i", "t">>
FForce == <<"F", "o", "r", "c", "e">>
FOwner == <<"O", "w", "n", "e", "r">>
FCache == <<"c", "a", "c", "h", "e">>
FExtra == <<"E", "x", "t", "r", "a">>

\* one reflect.StructField: its name, its type (kind, element kind, key kind)
\* and the tags New reads (usage only labels the flag; fields tagged local are
\* not part of the modelled records)
Field(fname, kind, elem, key, tname, tenv, tdefault, tsplit) ==
    [Name |-> fname, kind |-> kind, elem |-> elem, key |-> key,
     tname |-> tname, tshort |-> Empty, tenv |-> tenv, tdefault |-> tdefault,
     tsplit |-> tsplit]

Scalar(fname, kind, tenv, tdefault) == Field(fname, kind, "", "", Empty, tenv, tdefault, Empty)

\* type Options struct {
\*     Tag     string            `env:"MY_TAG" default:"v1"`
\*     Label   string            `default:"v1"`
\*     Count   int               `default:"7"`
\*     Depth   int64             `default:"x"`
\*     Verbose bool              `default:"true"`
\*     Quiet   bool
\*     Arch    []string
\*     Volume  []string          `split:"false"`
\*     Meta    map[string]string
\*     Limit   *int              `default:"7"`
\*     Force   *bool
\*     Owner   *string           `env:"MY_TAG" default:"v1"`
\*     cache   chan int
\* }
BaseDecl == <<
    Scalar(FTag, "String", MY_TAG, v1),
    Scalar(FLabel, "String", Empty, v1),
    Scalar(FCount, "Int", Empty, <<"7">>),
    Scalar(FDepth, "Int64", Empty, <<"x">>),
    Scalar(FVerbose, "Bool", Empty, <<"t", "r", "u", "e">>),
    Scalar(FQuiet, "Bool", Empty, Empty),
    Field(FArch, "Slice", "String", "", Empty, Empty, Empty, Empty),
    Field(FVolume, "Slice", "String", "", Empty, Empty, Empty, <<"f", "a", "l", "s", "e">>),
    Field(FMeta, "Map", "String", "String", Empty, Empty, Empty, Empty),
    Field(FLimit, "Pointer", "Int", "", Empty, Empty, <<"7">>, Empty),
    Field(FForce, "Pointer", "Bool", "", Empty, Empty, Empty, Empty),
    Field(FOwner, "Pointer", "String", "", Empty, MY_TAG, v1, Empty),
    Scalar(FCache, "Chan", Empty, Empty) >>

\* the record with a `name:"..."` tag on one field
WithName(d, fname, tname) ==
    [i \in 1..Len(d) |-> IF d[i].Name = fname THEN [d[i] EXCEPT !.tname = tname] ELSE d[i]]

\* name tags holding a comma: contextKey looks the flag up under the text after it
NameTagged == {
    WithName(BaseDecl, FVolume, <<"x", ",", "a", "r", "c", "h">>),
    WithName(BaseDecl, FArch, <<"x", ",", "n", "o">>),
    WithName(BaseDecl, FMeta, <<"x", ",", "t", "a", "g">>),
    WithName(BaseDecl, FLimit, <<"x", ",", "t", "a", "g">>),
    WithName(BaseDecl, FForce, <<"x", ",", "n", "o">>),
    WithName(BaseDecl, FOwner, <<"x", ",", "c", "o", "u", "n", "t">>) }

\* types of one more exported field, Extra
ExtraTypes == {
    <<"Float64", "", "">>, <<"Uint", "", "">>, <<"Struct", "", "">>, <<"Int32", "", "">>,
    <<"Pointer", "Float64", "">>, <<"Pointer", "Struct", "">>,
    <<"Slice", "Int", "">>, <<"Map", "Int", "String">>, <<"Map", "String", "Int">> }

WithExtra == {Append(BaseDecl, Field(FExtra, t[1], t[2], t[3], Empty, Empty, Empty, Empty)) :
                t \in ExtraTypes}

Decls == {BaseDecl} \cup NameTagged \cup WithExtra

\* the zero value of a field of the given type
Zero(f) ==
    CASE f.kind = "String" -> Empty
      [] f.kind = "Bool" -> FALSE
      [] f.kind = "Slice" -> NilSlice
      [] f.kind = "Map" -> NilMap
      [] f.kind \in {"Pointer", "Chan"} -> NilPtr
      [] OTHER -> 0

\* a value a caller, or a hook of obj, stores in a collection or optional field
Stored(f) ==
    CASE f.kind = "Slice" -> MkSlice(<<<<"h">>>>)
      [] f.kind = "Map" -> MkMap({<<<<"h">>, <<"h">>>>})
      [] f.kind = "Pointer" /\ f.elem = "Int" -> MkPtr(9)
      [] f.kind = "Pointer" /\ f.elem = "Bool" -> MkPtr(TRUE)
      [] f.kind = "Pointer" /\ f.elem = "String" -> MkPtr(<<"h">>)
      [] OTHER -> Zero(f)

FieldNames(d) == {d[i].Name : i \in 1..Len(d)}
FieldOf(d, fname) == d[CHOOSE i \in 1..Len(d) : d[i].Name = fname]

ZeroRecord(d) == [n \in FieldNames(d) |-> Zero(FieldOf(d, n))]
StoredRecord(d) == [n \in FieldNames(d) |-> Stored(FieldOf(d, n))]

\* m[k] = v on a Go map held as a function
Put(m, k, v) == [x \in (DOMAIN m) \cup {k} |-> IF x = k THEN v ELSE m[x]]
NoEntries == [x \in {} |-> 0]

(***************************************************************************)
(* pflag: registration, Set and the typed getters                          *)
(***************************************************************************)
\* a pflag.Flag; a direct-bind flag (IntVarP, StringVarP, BoolVarP) keeps its
\* value in the record field it points at, the others in storage of their own
Flag(typ, alias, bound, field, val) ==
    [typ |-> typ, short |-> alias, changed |-> FALSE, bound |-> bound, field |-> field,
     val |-> val]

FlagValue(fl, r) == IF fl.bound THEN r[fl.field] ELSE fl.val

\* FlagSet.AddFlag: panics on a redefined name, on a shorthand of more than
\* one character and on a shorthand already in use
AddFlag(st, nm, fl) ==
    IF \/ nm \in DOMAIN st.flags
       \/ Len(fl.short) > 1
       \/ fl.short # Empty /\ \E n \in DOMAIN st.flags : st.flags[n].short = fl.short
    THEN [st EXCEPT !.status = "panic"]
    ELSE [st EXCEPT !.flags = Put(st.flags, nm, fl)]

\* Value.Set of each flag type: [ok, val]. strconv.ParseInt is modelled on
\* decimal literals (the arguments carry no base prefix).
ValueSet(fl, cur, s) ==
    CASE fl.typ = "int" -> Atoi(s)
      [] fl.typ = "string" -> [ok |-> TRUE, val |-> s]
      [] fl.typ = "bool" -> ParseBool(s)
      [] fl.typ = "stringSlice" ->
           LET rv == readAsCSV(s)
           IN  [ok |-> rv.ok,
                val |-> IF fl.changed THEN MkSlice(cur.elems \o rv.vals) ELSE MkSlice(rv.vals)]
      [] fl.typ = "stringArray" ->
           [ok |-> TRUE,
            val |-> IF fl.changed THEN MkSlice(Append(cur.elems, s)) ELSE MkSlice(<<s>>)]

\* FlagSet.Set(name, value) on the pair fs = [flags, rec]
FlagSetSet(fs, nm, s) ==
    IF nm \notin DOMAIN fs.flags THEN [ok |-> FALSE, flags |-> fs.flags, rec |-> fs.rec]
    ELSE LET fl == fs.flags[nm]
             r == ValueSet(fl, FlagValue(fl, fs.rec), s)
         IN  IF ~r.ok THEN [ok |-> FALSE, flags |-> fs.flags, rec |-> fs.rec]
             ELSE [ok |-> TRUE,
                   flags |-> [fs.flags EXCEPT ![nm] =
                                [fl EXCEPT !.changed = TRUE,
                                           !.val = IF fl.bound THEN fl.val ELSE r.val]],
                   rec |-> IF fl.bound THEN [fs.rec EXCEPT ![fl.field] = r.val] ELSE fs.rec]

\* FlagSet.getFlagType(name, ftype, conv): an error when the flag is not
\* defined or has another type, else conv(flag.Value.String())
GetTyped(fs, nm, typ) ==
    IF nm \notin DOMAIN fs.flags \/ fs.flags[nm].typ # typ THEN [ok |-> FALSE, val |-> 0]
    ELSE LET cur == FlagValue(fs.flags[nm], fs.rec)
         IN  CASE typ = "int" -> Atoi(Itoa(cur))
               [] typ = "bool" -> ParseBool(FormatBool(cur))
               [] typ = "string" -> [ok |-> TRUE, val |-> cur]
               [] OTHER -> LET c == sliceConv(cur.elems)
                           IN  [ok |-> c.ok, val |-> MkSlice(c.vals)]

(***************************************************************************)
(* New: one flag per exported field                                        *)
(***************************************************************************)
NoTargets == [arrays |-> NoEntries, slices |-> NoEntries, maps |-> NoEntries,
              optInt |-> NoEntries, optBool |-> NoEntries, optString |-> NoEntries]

\* the kinds New's switch has a case for
NewKinds == {"Int", "Int64", "String", "Slice", "Map", "Bool", "Pointer"}

\* the env callbacks of one field: one closure per name of its env tag
EnvCallbacks(f, nm) ==
    LET env == Split(f.tenv, ",")
        names == IF Len(env) = 1 /\ env[1] = Empty THEN Empty ELSE env
    IN  [i \in 1..Len(names) |-> [flag |-> nm, env |-> names[i], def |-> f.tdefault]]

\* the switch on the field's kind (the body of New's loop up to the env callbacks)
Register(st, f, nm, alias, defInt) ==
    CASE f.kind \in {"Int", "Int64"} ->
           AddFlag([st EXCEPT !.rec[f.Name] = defInt], nm, Flag("int", alias, TRUE, f.Name, 0))
      [] f.kind = "String" ->
           AddFlag([st EXCEPT !.rec[f.Name] = f.tdefault], nm,
                   Flag("string", alias, TRUE, f.Name, 0))
      [] f.kind = "Slice" ->
           IF f.tsplit = <<"f", "a", "l", "s", "e">>
           THEN AddFlag([st EXCEPT !.targets.arrays = Put(st.targets.arrays, nm, f.Name)], nm,
                        Flag("stringArray", alias, FALSE, f.Name, NilSlice))
           ELSE AddFlag([st EXCEPT !.targets.slices = Put(st.targets.slices, nm, f.Name)], nm,
                        Flag("stringSlice", alias, FALSE, f.Name, NilSlice))
      [] f.kind = "Map" ->
           AddFlag([st EXCEPT !.targets.maps = Put(st.targets.maps, nm, f.Name)], nm,
                   Flag("stringSlice", alias, FALSE, f.Name, NilSlice))
      [] f.kind = "Bool" ->
           AddFlag([st EXCEPT !.rec[f.Name] = FALSE], nm, Flag("bool", alias, TRUE, f.Name, 0))
      [] f.kind = "Pointer" ->
           CASE f.elem = "Int" ->
                  AddFlag([st EXCEPT !.targets.optInt = Put(st.targets.optInt, nm, f.Name)], nm,
                          Flag("int", alias, FALSE, f.Name, defInt))
             [] f.elem = "String" ->
                  AddFlag([st EXCEPT !.targets.optString = Put(st.targets.optString, nm, f.Name)],
                          nm, Flag("string", alias, FALSE, f.Name, f.tdefault))
             [] f.elem = "Bool" ->
                  AddFlag([st EXCEPT !.targets.optBool = Put(st.targets.optBool, nm, f.Name)], nm,
                          Flag("bool", alias, FALSE, f.Name, FALSE))
             [] OTHER -> st
      [] OTHER -> [st EXCEPT !.status = "panic"]

\* one iteration of New's loop over fields(obj)
NewField(st, f) ==
    IF ToUpperChar(f.Name[1]) # f.Name[1] THEN st
    ELSE LET na == name(f.Name, f.tname, f.tshort)
             parsed == Atoi(f.tdefault)
             defInt == IF parsed.ok THEN parsed.val ELSE 0
             reg == Register(st, f, na[1], na[2], defInt)
         IN  IF reg.status = "panic" THEN reg
             ELSE [reg EXCEPT !.envs = reg.envs \o EnvCallbacks(f, na[1])]

RECURSIVE NewLoop(_, _, _)
NewLoop(st, d, i) ==
    IF i > Len(d) \/ st.status = "panic" THEN st ELSE NewLoop(NewField(st, d[i]), d, i + 1)

\* New(obj, cmd): the flags, the direct-bind fields set to their defaults, the
\* write-back targets and the env callbacks; status "panic" when it panics
NewCmd(d, r) ==
    NewLoop([flags |-> NoEntries, rec |-> r, envs |-> Empty, targets |-> NoTargets,
             status |-> "ok"], d, 1)

(***************************************************************************)
(* The env callbacks and the write-back steps                              *)
(***************************************************************************)
\* os.Getenv
Getenv(env, n) == IF n \in DOMAIN env THEN env[n] ELSE Empty

\* one closure of envs: a non-empty variable replaces a flag value that reads
\* as the empty string or as the default tag
envCallback(st, cb, env) ==
    LET v == Getenv(env, cb.env)
    IN  IF v = Empty THEN st
        ELSE LET fv == GetTyped(st, cb.flag, "string")
             IN  IF fv.ok /\ (fv.val = Empty \/ fv.val = cb.def)
                 THEN LET set == FlagSetSet(st, cb.flag, v)
                      IN  [st EXCEPT !.flags = set.flags, !.rec = set.rec]
                 ELSE st

\* for _, envCallback := range envs { envCallback() }
RECURSIVE envLoop(_, _, _, _)
envLoop(st, cbs, env, i) ==
    IF i > Len(cbs) THEN st
    ELSE LET done == envCallback(st, cbs[i], env)
         IN  envLoop([done EXCEPT !.trace = Append(done.trace, [step |-> "envCallback",
                                                                 err |-> "nil"])],
                     cbs, env, i + 1)

\* the keys of a Go map in one order (the declared records give every
\* write-back map at most one entry whose assignment can succeed)
RECURSIVE KeySeq(_)
KeySeq(S) == IF S = {} THEN Empty ELSE LET k == CHOOSE x \in S : TRUE IN <<k>> \o KeySeq(S \ {k})

\* reflect.Value.Set panics unless the value's type is assignable to the field's
Assignable(f, kind, elem, key) == f.kind = kind /\ f.elem = elem /\ f.key = key

\* the body of the loop of assignSlices (typ stringSlice) and assignArrays
\* (typ stringArray) for one entry; err is "nil", "error" or "panic"
assignSequence(st, d, k, fname, typ) ==
    LET key == contextKey(k)
        got == GetTyped(st, key, typ)
    IN  IF ~got.ok THEN [st EXCEPT !.err = "error"]
        ELSE LET a == st.flags[key]
                 s == IF a.changed /\ Len(got.val.elems) = 0 THEN MkSlice(<<Empty>>) ELSE got.val
             IN  IF s.isnil THEN st
                 ELSE IF ~Assignable(FieldOf(d, fname), "Slice", "String", "")
                      THEN [st EXCEPT !.err = "panic"]
                      ELSE [st EXCEPT !.rec[fname] = s]

\* the body of the loop of assignMaps for one entry
assignMap(st, d, k, fname) ==
    LET key == contextKey(k)
        got == GetTyped(st, key, "stringSlice")
    IN  IF ~got.ok THEN [st EXCEPT !.err = "error"]
        ELSE IF got.val.isnil THEN st
        ELSE IF ~Assignable(FieldOf(d, fname), "Map", "String", "String")
             THEN [st EXCEPT !.err = "panic"]
             ELSE [st EXCEPT !.rec[fname] = MkMap(parseTokens(got.val.elems, {}))]

\* the body of the loop of assignOptInt, assignOptBool and assignOptString
\* with the test of the Changed mark left out
assignOptAlways(st, k, fname, typ) ==
    LET key == contextKey(k)
    IN  IF key \notin DOMAIN st.flags THEN [st EXCEPT !.err = "panic"]
        ELSE LET got == GetTyped(st, key, typ)
             IN  IF ~got.ok THEN [st EXCEPT !.err = "error"]
                 ELSE [st EXCEPT !.rec[fname] = MkPtr(got.val)]

\* the body of the loop of assignOptInt (typ int), assignOptBool (typ bool)
\* and assignOptString (typ string) for one entry: Lookup(k) of a flag that
\* is not defined is nil, and reading its Changed panics
assignOpt(st, k, fname, typ) ==
    LET key == contextKey(k)
    IN  IF key \notin DOMAIN st.flags THEN [st EXCEPT !.err = "panic"]
        ELSE IF ~st.flags[key].changed THEN st
        ELSE LET got == GetTyped(st, key, typ)
             IN  IF ~got.ok THEN [st EXCEPT !.err = "error"]
                 ELSE [st EXCEPT !.rec[fname] = MkPtr(got.val)]

\* the write-back steps with the optional kinds ahead of the collections
StepsOptFirst == <<"assignOptInt", "assignOptBool", "assignOptString", "assignArrays",
                   "assignSlices", "assignMaps">>

\* the write-back steps in the order bind calls them
Steps == <<"assignArrays", "assignSlices", "assignMaps", "assignOptInt", "assignOptBool",
           "assignOptString">>

TargetsOf(tg, step) ==
    CASE step = "assignArrays" -> tg.arrays
      [] step = "assignSlices" -> tg.slices
      [] step = "assignMaps" -> tg.maps
      [] step = "assignOptInt" -> tg.optInt
      [] step = "assignOptBool" -> tg.optBool
      [] step = "assignOptString" -> tg.optString

\* one entry of one step
assignOne(st, d, step, k, fname) ==
    CASE step = "assignArrays" -> assignSequence(st, d, k, fname, "stringArray")
      [] step = "assignSlices" -> assignSequence(st, d, k, fname, "stringSlice")
      [] step = "assignMaps" -> assignMap(st, d, k, fname)
      [] step = "assignOptInt" -> assignOpt(st, k, fname, "int")
      [] step = "assignOptBool" -> assignOpt(st, k, fname, "bool")
      [] step = "assignOptString" -> assignOpt(st, k, fname, "string")

\* the loop of one assign function: stops at the first error
RECURSIVE assignLoop(_, _, _, _, _)
assignLoop(st, d, step, m, ks) ==
    IF ks = Empty \/ st.err # "nil" THEN st
    ELSE assignLoop(assignOne(st, d, step, Head(ks), m[Head(ks)]), d, step, m, Tail(ks))

assignStep(st, d, tg, step) ==
    LET m == TargetsOf(tg, step)
        done == assignLoop(st, d, step, m, KeySeq(DOMAIN m))
    IN  [done EXCEPT !.trace = Append(done.trace, [step |-> step, err |-> done.err])]

\* if err := assignX(cmd, x); err != nil { return err }, step after step
RECURSIVE runSteps(_, _, _, _, _)
runSteps(st, d, tg, steps, i) ==
    IF i > Len(steps) \/ st.err # "nil" THEN st
    ELSE runSteps(assignStep(st, d, tg, steps[i]), d, tg, steps, i + 1)

(***************************************************************************)
(* contextualize and the defaultOptions cache                              *)
(***************************************************************************)
Callers == {1, 2}

\* the default option constructors contextualize applies to a new cache
NumDefaultOptions == 6

\* contextualize run by one caller alone
contextualizeAlone(cache, app) ==
    IF cache = 0
    THEN [cache |-> Len(app) + 1, applied |-> Append(app, NumDefaultOptions)]
    ELSE [cache |-> cache, applied |-> app]

(***************************************************************************)
(* The life cycle of one command: New, then cobra's execute                *)
(***************************************************************************)
mainVars == <<pc, decl, rec, flags, envs, environ, hasPre, hook, argv, prior, ov, wb, targets,
              trace, result, passes>>
cacheVars == <<defaultOptions, applied>>
callerVars == <<cpc, copts, calls>>
nameVars == <<nameIn, nameOut>>
mapVars == <<tokens, mapOut>>

\* the collection and optional fields a hook of obj may assign
HookFields == {Empty, FArch, FLimit}

\* no bound callable has run yet
NoState == [flags |-> NoEntries, rec |-> NoEntries, err |-> "nil", trace |-> Empty]

MainIdle ==
    /\ pc = "off" /\ decl = Empty /\ rec = NoEntries /\ flags = NoEntries /\ envs = Empty
    /\ environ = NoEntries /\ hasPre = FALSE /\ hook = Empty /\ argv = Empty
    /\ prior = NoEntries /\ ov = NoState /\ wb = NoState /\ targets = NoTargets /\ trace = Empty
    /\ result = "nil" /\ passes = 0

CacheIdle == defaultOptions = 0 /\ applied = Empty
CallerIdle ==
    /\ cpc = [p \in Callers |-> [at |-> "idle", i |-> 0]]
    /\ copts = [p \in Callers |-> 0]
    /\ calls = [p \in Callers |-> 0]
NameIdle == nameIn = Empty /\ nameOut = Empty
MapIdle == tokens = Empty /\ mapOut = NilMap

\* the caller has built obj; New has not run yet
Init ==
    /\ pc = "new"
    /\ decl \in Decls
    /\ hook \in IF decl = BaseDecl THEN HookFields ELSE {Empty}
    /\ rec \in {ZeroRecord(decl), StoredRecord(decl)}
    /\ prior = rec
    /\ ov = NoState
    /\ wb = NoState
    /\ environ \in {[n \in {MY_TAG} |-> v] : v \in {Empty, v2}}
    /\ hasPre \in BOOLEAN
    /\ flags = NoEntries /\ envs = Empty /\ targets = NoTargets
    /\ argv = Empty /\ trace = Empty /\ result = "nil" /\ passes = 0
    /\ CacheIdle /\ CallerIdle /\ NameIdle /\ MapIdle

\* cmd := New(obj, cobra.Command{})
New ==
    /\ pc = "new"
    /\ LET st == NewCmd(decl, rec)
       IN  /\ pc' = IF st.status = "panic" THEN "newpanic" ELSE "built"
           /\ flags' = st.flags
           /\ rec' = st.rec
           /\ envs' = st.envs
           /\ targets' = st.targets
    /\ UNCHANGED <<decl, environ, hasPre, hook, argv, prior, ov, wb, trace, result, passes>>
    /\ UNCHANGED <<cacheVars, callerVars, nameVars, mapVars>>

\* the values a command line gives a flag of each type
ArgValues(typ) ==
    CASE typ = "string" -> {Empty, v1, v3}
      [] typ = "int" -> {<<"5">>, <<"7">>, <<"x">>}
      [] typ = "bool" -> {<<"t", "r", "u", "e">>, <<"f", "a", "l", "s", "e">>}
      [] typ = "stringSlice" -> {Empty, <<"a">>, <<"a", "=", "1", ",", "b">>}
      [] typ = "stringArray" -> {Empty, <<"a", ",", "b">>}

Args(fl) == UNION {{[name |-> n, value |-> v] : v \in ArgValues(fl[n].typ)} : n \in DOMAIN fl}

RECURSIVE ArgLists(_, _)
ArgLists(fl, n) ==
    IF n = 0 THEN {Empty}
    ELSE LET shorter == ArgLists(fl, n - 1)
         IN  shorter \cup {Append(l, a) : l \in {x \in shorter : Len(x) = n - 1}, a \in Args(fl)}

\* FlagSet.Parse: Set for each occurrence in order, stopping at the first error
RECURSIVE parseArgs(_, _, _)
parseArgs(fs, args, i) ==
    IF i > Len(args) THEN fs
    ELSE LET set == FlagSetSet(fs, args[i].name, args[i].value)
         IN  IF ~set.ok THEN [flags |-> set.flags, rec |-> set.rec, ok |-> FALSE]
             ELSE parseArgs([flags |-> set.flags, rec |-> set.rec, ok |-> TRUE], args, i + 1)

\* cobra: c.ParseFlags(args)
ParseFlags ==
    /\ pc = "built"
    /\ \E args \in ArgLists(flags, MaxArgs) :
         LET fs == parseArgs([flags |-> flags, rec |-> rec, ok |-> TRUE], args, 1)
         IN  /\ argv' = args
             /\ flags' = fs.flags
             /\ rec' = fs.rec
             /\ pc' = IF fs.ok THEN "parsed" ELSE "flagerr"
    /\ UNCHANGED <<decl, envs, environ, hasPre, hook, prior, ov, wb, targets, trace, result, passes>>
    /\ UNCHANGED <<cacheVars, callerVars, nameVars, mapVars>>

\* obj.PersistentPre: may assign one collection or optional field
PersistentPre(r) == IF hook = Empty THEN r ELSE [r EXCEPT ![hook] = Stored(FieldOf(decl, hook))]

\* the effect on the record of the callable a bound callable wraps; obj.Pre
\* and obj.Run leave the record alone
Wrapped(callee, r) == IF callee = "PersistentPre" THEN PersistentPre(r) ELSE r

\* one callable returned by bind, run at position from: the env callbacks,
\* then the write-back steps, then the wrapped callable unless a step failed;
\* where is the position after it
BoundCall(from, where, callee) ==
    /\ pc = from
    /\ ov' = envLoop([flags |-> flags, rec |-> rec, err |-> "nil", trace |-> Empty],
                     envs, environ, 1)
    /\ wb' = runSteps(ov', decl, targets, Steps, 1)
    /\ flags' = wb'.flags
    /\ passes' = passes + 1
    /\ result' = wb'.err
    /\ IF result' = "nil"
       THEN /\ rec' = Wrapped(callee, wb'.rec)
            /\ trace' = Append(wb'.trace, [step |-> "next", err |-> "nil"])
            /\ pc' = where
       ELSE /\ rec' = wb'.rec
            /\ trace' = wb'.trace
            /\ pc' = result'
    /\ UNCHANGED <<decl, envs, environ, hasPre, hook, argv, prior, targets>>
    /\ UNCHANGED <<callerVars, nameVars, mapVars>>

\* c.PersistentPreRunE: contextualize, then obj.PersistentPre
PersistentPreRunE ==
    /\ BoundCall("parsed", "ppre", "PersistentPre")
    /\ LET c == contextualizeAlone(defaultOptions, applied)
       IN  IF result' = "nil"
           THEN defaultOptions' = c.cache /\ applied' = c.applied
           ELSE UNCHANGED cacheVars

\* c.PreRunE, when obj implements PreRunnable (bind(nil, ...) is nil)
PreRunE ==
    /\ hasPre
    /\ BoundCall("ppre", "pre", "Pre")
    /\ UNCHANGED cacheVars

\* c.RunE
RunE ==
    /\ BoundCall(IF hasPre THEN "pre" ELSE "ppre", "done", "Run")
    /\ UNCHANGED cacheVars

Next == New \/ ParseFlags \/ PersistentPreRunE \/ PreRunE \/ RunE

Spec == Init /\ [][Next]_vars

(***************************************************************************)
(* contextualize run by two callers at once: the test of the cache, the    *)
(* allocation, each default option and the use of the cache are separate   *)
(* steps, as nothing in contextualize synchronises them                    *)
(***************************************************************************)
InitCtx == MainIdle /\ CacheIdle /\ CallerIdle /\ NameIdle /\ MapIdle

At(p, at, i) == cpc' = [cpc EXCEPT ![p] = [at |-> at, i |-> i]]

\* if defaultOptions == nil
CtxCheck(p) ==
    /\ cpc[p].at = "idle"
    /\ calls[p] < MaxCalls
    /\ At(p, IF defaultOptions = 0 THEN "alloc" ELSE "use", 0)
    /\ UNCHANGED <<mainVars, cacheVars, copts, calls, nameVars, mapVars>>

\* defaultOptions = &CliOptions{}
CtxAlloc(p) ==
    /\ cpc[p].at = "alloc"
    /\ defaultOptions' = Len(applied) + 1
    /\ applied' = Append(applied, 0)
    /\ At(p, "opt", 1)
    /\ UNCHANGED <<mainVars, copts, calls, nameVars, mapVars>>

\* o(defaultOptions), for the i-th default option
CtxOption(p) ==
    /\ cpc[p].at = "opt"
    /\ applied' = [applied EXCEPT ![defaultOptions] = @ + 1]
    /\ IF cpc[p].i = NumDefaultOptions THEN At(p, "use", 0) ELSE At(p, "opt", cpc[p].i + 1)
    /\ UNCHANGED <<mainVars, defaultOptions, copts, calls, nameVars, mapVars>>

\* copts := defaultOptions and the rest of the call
CtxUse(p) ==
    /\ cpc[p].at = "use"
    /\ copts' = [copts EXCEPT ![p] = defaultOptions]
    /\ calls' = [calls EXCEPT ![p] = @ + 1]
    /\ At(p, "idle", 0)
    /\ UNCHANGED <<mainVars, cacheVars, nameVars, mapVars>>

NextCtx == \E p \in Callers : CtxCheck(p) \/ CtxAlloc(p) \/ CtxOption(p) \/ CtxUse(p)

SpecCtx == InitCtx /\ [][NextCtx]_vars

(***************************************************************************)
(* name() on enumerated field names                                        *)
(***************************************************************************)
NameChars == {"T", "a", "N", "_"}

RECURSIVE StringsUpTo(_, _)
StringsUpTo(chars, n) ==
    IF n = 0 THEN {Empty}
    ELSE LET shorter == StringsUpTo(chars, n - 1)
         IN  shorter \cup {Append(x, c) : x \in {y \in shorter : Len(y) = n - 1}, c \in chars}

Tag_Name == <<"T", "a", "g", "_", "N", "a", "m", "e">>

\* Go identifiers: never empty
FieldNameInputs ==
    (StringsUpTo(NameChars, MaxNameLen) \ {Empty}) \cup {Tag_Name} \cup FieldNames(BaseDecl)

InitName ==
    /\ MainIdle /\ CacheIdle /\ CallerIdle /\ MapIdle
    /\ nameIn \in FieldNameInputs \X {Empty, <<"x">>} \X {Empty, <<"s">>}
    /\ nameOut = Empty

\* name, alias := name(fieldType.Name, tag "name", tag "short")
CallName ==
    /\ nameOut = Empty
    /\ nameIn # Empty
    /\ nameOut' = name(nameIn[1], nameIn[2], nameIn[3])
    /\ UNCHANGED <<mainVars, cacheVars, callerVars, nameIn, mapVars>>

NextName == CallName

SpecName == InitName /\ [][NextName]_vars

(***************************************************************************)
(* assignMaps on enumerated token sequences                                *)
(***************************************************************************)
TokenChars == {"a", "="}

RECURSIVE ListsUpTo(_, _)
ListsUpTo(S, n) ==
    IF n = 0 THEN {Empty}
    ELSE LET shorter == ListsUpTo(S, n - 1)
         IN  shorter \cup {Append(x, e) : x \in {y \in shorter : Len(y) = n - 1}, e \in S}

TokenInputs ==
    ListsUpTo(StringsUpTo(TokenChars, MaxTokLen), MaxTokens)
        \cup { << <<"a", "=", "1">>, <<"b">> >>,
               << <<"a", "=", "1">>, <<"a", "=", "2">> >>,
               << <<"k", "=", "x", "=", "y">> >> }

InitMaps ==
    /\ MainIdle /\ CacheIdle /\ CallerIdle /\ NameIdle
    /\ pc = "off"
    /\ tokens \in TokenInputs
    /\ mapOut = NilMap

\* assignMaps for one flag whose GetStringSlice gave the tokens s (never nil)
AssignMaps ==
    /\ mapOut.isnil
    /\ mapOut' = MkMap(parseTokens(tokens, {}))
    /\ UNCHANGED <<mainVars, cacheVars, callerVars, nameVars, tokens>>

NextMaps == AssignMaps

SpecMaps == InitMaps /\ [][NextMaps]_vars

(***************************************************************************)
(* Properties                                                              *)
(***************************************************************************)
\* positions at which at least one bound callable has run to its end
Ran == {"ppre", "pre", "done"}

DeclFields == {decl[i] : i \in 1..Len(decl)}
Exported(f) == ToUpperChar(f.Name[1]) = f.Name[1]
FlagNameOf(f) == name(f.Name, f.tname, f.tshort)[1]

\* write-back looks the field's flag up under the flag's own name
OwnName(f) == contextKey(FlagNameOf(f)) = FlagNameOf(f)

Occurrences(n) == {i \in 1..Len(argv) : argv[i].name = n}
Passed(n) == Occurrences(n) # {}
LastValue(n) == argv[CHOOSE i \in Occurrences(n) : \A j \in Occurrences(n) : j <= i].value

\* the value of the field's environment variable (the declared records name
\* at most one variable per field)
EnvValue(f) == IF f.tenv = Empty THEN Empty ELSE Getenv(environ, f.tenv)

\* the content of a collection or optional field when the last pass began
Before(f) == IF passes > 1 /\ hook = f.Name THEN Stored(f) ELSE prior[f.Name]

\* C1: a string field with a non-empty environment fallback E equals E after
\* the chain when its flag is not passed, and equals V when the flag is passed
\* with any value V: the environment never overrides an explicit flag.
C1_EnvNeverOverridesExplicit ==
    (pc \in Ran /\ Getenv(environ, MY_TAG) # Empty) =>
        LET n == FlagNameOf(FieldOf(decl, FTag))
        IN  rec[FTag] = IF Passed(n) THEN LastValue(n) ELSE Getenv(environ, MY_TAG)

SequenceFields == {f \in DeclFields : Exported(f) /\ f.kind = "Slice" /\ f.elem = "String"
                                      /\ OwnName(f)}

\* C2: a sequence field whose flag is passed once with an empty value is the
\* one-element sequence holding the empty string after write-back; a sequence
\* field whose flag is omitted keeps the content it had before the pass.
C2_SequenceEmptyVsUnset ==
    pc \in Ran =>
        \A f \in SequenceFields :
            LET n == FlagNameOf(f)
            IN  /\ (Cardinality(Occurrences(n)) = 1 /\ LastValue(n) = Empty)
                       => wb.rec[f.Name] = MkSlice(<<Empty>>)
                /\ ~Passed(n) => wb.rec[f.Name].elems = Before(f).elems

OptionalFields == {f \in DeclFields : Exported(f) /\ f.kind = "Pointer"
                                      /\ f.elem \in {"Int", "Bool", "String"} /\ OwnName(f)}

ParsedValue(f, s) ==
    CASE f.elem = "Int" -> Atoi(s).val
      [] f.elem = "Bool" -> ParseBool(s).val
      [] f.elem = "String" -> s

Overlaid(f) == f.elem = "String" /\ EnvValue(f) # Empty

NoEquals(t) == \A i \in 1..Len(t) : t[i] # "="

\* token t contributes key k with value v
Contributes(t, k, v) ==
    \/ NoEquals(t) /\ k = t /\ v = Empty
    \/ NoEquals(k) /\ t = k \o <<"=">> \o v

Suffixes(t) == {SubSeq(t, i, Len(t)) : i \in 1..(Len(t) + 1)}
HasKey(t, k) == \E v \in Suffixes(t) : Contributes(t, k, v)

\* C4: the mapping of assignMaps holds, for each key, the value of the last
\* token with that key: the token itself as key with the empty value when it
\* has no '=', else the text before the first '=' as key and all the text
\* after it as value; and it has no other keys.
C4_AssignMaps ==
    ~mapOut.isnil =>
        /\ \A i \in 1..Len(tokens) : \E p \in mapOut.kv : HasKey(tokens[i], p[1])
        /\ \A p \in mapOut.kv :
             \E i \in 1..Len(tokens) :
                /\ Contributes(tokens[i], p[1], p[2])
                /\ \A j \in (i + 1)..Len(tokens) : ~HasKey(tokens[j], p[1])
        /\ \A p, q \in mapOut.kv : p[1] = q[1] => p = q

\* a key given twice, the later value holding an '='
C4_Witness ==
    /\ tokens = << <<"a", "=", "a">>, <<"a", "=", "=">> >>
    /\ mapOut = MkMap({<< <<"a">>, <<"=">> >>})

DirectFields == {f \in DeclFields : Exported(f) /\ f.kind \in {"Int", "Int64", "String", "Bool"}
                                    /\ f.tenv = Empty}

ParsedAs(f, s) ==
    CASE f.kind \in {"Int", "Int64"} -> IF Atoi(s).ok THEN Atoi(s).val ELSE 0
      [] f.kind = "Bool" -> ParseBool(s).val
      [] f.kind = "String" -> s

\* C5: a direct-bind field without environment fallback equals V after the
\* chain when its flag is set to V, and equals its default tag, parsed by the
\* field's kind, when the flag is omitted.
C5_DirectBind ==
    pc \in Ran =>
        \A f \in DirectFields :
            LET n == FlagNameOf(f)
            IN  rec[f.Name] = ParsedAs(f, IF Passed(n) THEN LastValue(n) ELSE f.tdefault)

\* C6 as stated: name("Tag_Name", "", "") is the flag name tag-name with an
\* empty alias.
C6_TagNameAsStated ==
    (nameIn = <<Tag_Name, Empty, Empty>> /\ nameOut # Empty) =>
        nameOut = << <<"t", "a", "g", "-", "n", "a", "m", "e">>, Empty >>

\* C6 (amended): name("Tag_Name", "", "") is the flag name "name" with the
\* alias "tag".
C6_TagName ==
    (nameIn = <<Tag_Name, Empty, Empty>> /\ nameOut # Empty) =>
        nameOut = << <<"n", "a", "m", "e">>, <<"t", "a", "g">> >>

C6_Witness == nameIn = <<Tag_Name, Empty, Empty>> /\ nameOut # Empty

\* the closed set of supported field types
Supported(f) ==
    \/ f.kind \in {"Int", "Int64", "String", "Bool"}
    \/ f.kind = "Slice" /\ f.elem = "String"
    \/ f.kind = "Map" /\ f.key = "String" /\ f.elem = "String"
    \/ f.kind = "Pointer" /\ f.elem \in {"Int", "String", "Bool"}

\* C7: when an exported field of the record has a type outside the supported
\* set, New fails: the command is never built.
C7_UnsupportedKindFailsInNew ==
    (\E f \in DeclFields : Exported(f) /\ ~Supported(f)) => pc \in {"new", "newpanic"}

\* C8: one invocation runs the environment overlay and the write-back once,
\* and what obj's pre-run hook stored in a collection or optional field is
\* still there when the invocation ends.
C8_WriteBackOnce ==
    /\ pc = "done" => passes = 1
    /\ (pc \in Ran /\ hook # Empty) => rec[hook] = Stored(FieldOf(decl, hook))

\* C9: a callable of bind runs every env callback, then the write-back steps
\* in the order arrays, slices, maps, optional integers, optional booleans,
\* optional strings, then the wrapped callable; a step that fails is the last
\* thing it runs and its error is the result.
C9_BindOrder ==
    LET n == Len(envs)
        order == <<"assignArrays", "assignSlices", "assignMaps", "assignOptInt",
                   "assignOptBool", "assignOptString", "next">>
    IN  trace # Empty =>
            /\ Len(trace) >= n + 1
            /\ Len(trace) <= n + 7
            /\ \A i \in 1..Len(trace) :
                  /\ trace[i].step = IF i <= n THEN "envCallback" ELSE order[i - n]
                  /\ trace[i].err # "nil" => i = Len(trace) /\ result = trace[i].err
            /\ trace[Len(trace)].err = "nil" => Len(trace) = n + 7 /\ result = "nil"

\* the mapping step fails: the steps before it ran, nothing after it did
C9_Witness ==
    /\ result = "error"
    /\ Len(trace) = Len(envs) + 3
    /\ trace[Len(trace)] = [step |-> "assignMaps", err |-> "error"]

\* C10: whatever the interleaving of the callers, one CliOptions object is
\* ever built, all six default options are applied to it, and every call
\* uses it.
C10_CacheBuiltOnce ==
    /\ Len(applied) <= 1
    /\ \A p, q \in Callers : (copts[p] # 0 /\ copts[q] # 0) => copts[p] = copts[q]
    /\ \A p \in Callers : copts[p] # 0 => applied[copts[p]] = NumDefaultOptions

====
